---- MODULE Spec2Model ----
(***************************************************************************)
(* ReadLines of nx_fsutils: a buffered reader that splits a stream into    *)
(* records ended by a literal delimiter or by a regular-expression match.  *)
(* Offsets are 0-based as in the Python source; Slice(s, i, j) is s[i:j].  *)
(***************************************************************************)
EXTENDS Integers, Sequences, FiniteSets, TLC

\* ------------------------------------------------------------------ bounds
MaxLen == 3
MaxChunk == 2
MaxPeek == 2
MaxStart == 1
MaxReads == 2

Units == {"a", "b"}

\* --------------------------------------------------------------- sequences
Min2(x, y) == IF x <= y THEN x ELSE y

Max2(x, y) == IF x >= y THEN x ELSE y

SetMin(S) == CHOOSE x \in S : \A y \in S : x <= y

\* Python s[i:j] for 0 <= i, with j clamped to len(s)
Slice(s, i, j) == SubSeq(s, i + 1, Min2(j, Len(s)))

\* Python s[i:]
Tail0(s, i) == SubSeq(s, i + 1, Len(s))

SeqsUpTo(n) == UNION {[1..k -> Units] : k \in 0..n}

\* -------------------------------------------------------------- delimiters
\* A delimiter is a str (kind "lit", alts = <<text>>) or a compiled pattern:
\* kind "plus" is  u+  for the unit alts[1][1]; kind "alt" is the ordered
\* alternation  alts[1] | alts[2] | ...  of literal texts; kind "ahead" is
\* alts[1](?=alts[2]), the text alts[1] where the text alts[2] follows it.
Lit(t) == [kind |-> "lit", alts |-> <<t>>]

Plus(u) == [kind |-> "plus", alts |-> << <<u>> >>]

Alt(as) == [kind |-> "alt", alts |-> as]

Ahead(t, la) == [kind |-> "ahead", alts |-> <<t, la>>]

NoDelim == [kind |-> "unset", alts |-> <<>>]

LitDelims ==
  { Lit(<<>>), Lit(<<"a">>), Lit(<<"a", "b">>), Lit(<<"a", "a">>) }

PatDelims ==
  { Plus("a"), Alt(<< <<"b">>, <<"a", "b", "a">> >>), Alt(<< <<>> >>),
    Ahead(<<"a">>, <<"b", "b">>) }

Delims == LitDelims \cup PatDelims

\* isinstance(delimiter, (str, bytes))
IsLiteral(d) == d.kind = "lit"

\* str.find(d, start): the least offset >= start where d occurs, or -1
Find(b, t, from) ==
  LET hits == {p \in from..(Len(b) - Len(t)) : Slice(b, p, p + Len(t)) = t}
  IN  IF hits = {} THEN -1 ELSE SetMin(hits)

\* length of the run of unit u in b from offset p
RECURSIVE RunLen(_, _, _)
RunLen(b, u, p) ==
  IF p < Len(b) /\ b[p + 1] = u THEN 1 + RunLen(b, u, p + 1) ELSE 0

\* the length of the pattern's match anchored at offset p, or -1
MatchLenAt(d, b, p) ==
  IF d.kind = "plus"
  THEN LET n == RunLen(b, d.alts[1][1], p) IN IF n >= 1 THEN n ELSE -1
  ELSE IF d.kind = "ahead"
  THEN LET n == Len(d.alts[1])
       IN  IF /\ p + n + Len(d.alts[2]) <= Len(b)
              /\ Slice(b, p, p + n) = d.alts[1]
              /\ Slice(b, p + n, p + n + Len(d.alts[2])) = d.alts[2]
           THEN n ELSE -1
  ELSE LET ok == {i \in 1..Len(d.alts) :
                    /\ p + Len(d.alts[i]) <= Len(b)
                    /\ Slice(b, p, p + Len(d.alts[i])) = d.alts[i]}
       IN  IF ok = {} THEN -1 ELSE Len(d.alts[SetMin(ok)])

\* pattern.search(b, from): the leftmost match at or after from;
\* found = FALSE stands for None; endpos is len(b)
Search(d, b, from) ==
  LET hits == {p \in from..Len(b) : MatchLenAt(d, b, p) # -1}
  IN  IF hits = {}
      THEN [found |-> FALSE, start |-> -1, end |-> -1, endpos |-> Len(b)]
      ELSE LET p == SetMin(hits)
           IN  [found |-> TRUE, start |-> p, end |-> p + MatchLenAt(d, b, p),
                endpos |-> Len(b)]

\* ------------------------------------------------------------------- state
VARIABLES
  content,      \* the units of the underlying source
  pos,          \* the source's file position
  maxRead,      \* the most units the source hands out in one read call
  tellOk,       \* whether tell() on the source succeeds
  seekable,     \* whether seek() on the source succeeds
  readsLeft,    \* reads that succeed before one read fails; -1: none fails
  closeCount,   \* how many times the source's close() has been called
  life,         \* "new", "live", "failed" (constructor raised), "dead"
  fobj,         \* self._fobj is the handle (TRUE) or None / unset (FALSE)
  managed,      \* self._managed: the reader opened the source itself
  closed,       \* self._closed
  start,        \* self._start
  buffer_size,  \* self.buffer_size
  delimiter,    \* self.delimiter
  buf,          \* self._buf
  idx,          \* self._idx
  eof,          \* self._eof
  result,       \* what the last call gave back to its caller
  records,      \* records returned by __next__ since construction / reset
  resetAfter,   \* len(records) when reset() last succeeded; -1: never reset
  zeroRead      \* a read has returned no unit since construction / reset

vars == << content, pos, maxRead, tellOk, seekable, readsLeft, closeCount,
           life, fobj, managed, closed, start, buffer_size, delimiter,
           buf, idx, eof, result, records, resetAfter, zeroRead >>

srcVars == << content, maxRead, tellOk, seekable >>

Res(op, kind, val) == [op |-> op, kind |-> kind, val |-> val]

\* ------------------------------------------------------------------ source
\* h.read(n) at position p with rl reads left before a failure; h = FALSE is
\* a read attempted on None, which raises as well
FReadGreedy(h, p, n, rl) ==
  IF ~h \/ rl = 0
  THEN [ok |-> FALSE, data |-> <<>>, pos |-> p, rl |-> IF rl = 0 THEN -1 ELSE rl]
  ELSE LET data == Slice(content, p, p + n + 1)
       IN  [ok |-> TRUE, data |-> data, pos |-> p + Len(data),
            rl |-> IF rl > 0 THEN rl - 1 ELSE rl]

FRead(h, p, n, rl) ==
  IF ~h \/ rl = 0
  THEN [ok |-> FALSE, data |-> <<>>, pos |-> p, rl |-> IF rl = 0 THEN -1 ELSE rl]
  ELSE LET data == Slice(content, p, p + Min2(n, maxRead))
       IN  [ok |-> TRUE, data |-> data, pos |-> p + Len(data),
            rl |-> IF rl > 0 THEN rl - 1 ELSE rl]

\* ------------------------------------------------------------------- _next
\* line 245: a pattern match is held back when it ends where the buffer ends
NeverDeferred(m) == FALSE

Deferred(m) == m.endpos = m.end

\* lines 239, 247, 249: how many units before the end of the compacted
\* buffer the next search starts
OffsetZero(d, m, b, i) == 0

SearchOffset(d, m, b, i) ==
  IF IsLiteral(d) THEN Len(d.alts[1]) - 1
  ELSE IF m.found THEN m.end - m.start
  ELSE Len(b) - i

\* line 255: buf, idx = buf[idx:], 0
CompactKeepLast(b, i) == IF i < Len(b) THEN Tail0(b, Len(b) - 1) ELSE <<>>

CompactOffByOne(b, i) == Tail0(b, Min2(i + 1, Len(b)))

Compact(b, i) == Tail0(b, i)

\* lines 256-258: search_idx, clamped at 0
ResumeIndex(n, off) == Max2(n - off, 0)

\* lines 250-254: the source is exhausted: the rest once, then ('', 0, 0)
AtEofDropRest(b, i) == [buf |-> <<>>, start |-> 0, end |-> 0]

AtEofEmptyRecord(b, i) == [buf |-> b, start |-> i, end |-> Len(b)]

AtEofAgain(b, i) ==
  [buf |-> b, start |-> IF i < Len(b) THEN i ELSE 0, end |-> Len(b)]

AtEof(b, i) ==
  IF i < Len(b) THEN [buf |-> b, start |-> i, end |-> Len(b)]
  ELSE [buf |-> <<>>, start |-> 0, end |-> 0]

\* One run of the loop of ReadLines._next from local (b, i, si), with the
\* fields it changes on the way: self._eof, the file position, the reads.
RECURSIVE NextLoop(_, _, _, _, _, _, _, _)
NextLoop(b, i, si, e, p, rl, k, z) ==
  LET d == delimiter
      hit == IF IsLiteral(d) THEN Find(b, d.alts[1], si) ELSE -1
      m == IF IsLiteral(d)
           THEN [found |-> FALSE, start |-> -1, end |-> -1, endpos |-> Len(b)]
           ELSE Search(d, b, si)
      Ret(rb, rs, re) == [err |-> FALSE, buf |-> rb, start |-> rs, end |-> re,
                          eof |-> e, pos |-> p, rl |-> rl, n |-> k,
                          zero |-> z]
  IN  IF IsLiteral(d) /\ hit # -1
      THEN Ret(b, i, hit + Len(d.alts[1]))
      ELSE IF ~IsLiteral(d) /\ m.found /\ ~Deferred(m)
      THEN Ret(b, i, m.end)
      ELSE
        LET search_offset == SearchOffset(d, m, b, i)
        IN  IF e
            THEN Ret(AtEof(b, i).buf, AtEof(b, i).start, AtEof(b, i).end)
            ELSE LET b2 == Compact(b, i)
                     si2 == ResumeIndex(Len(b2), search_offset)
                     r == FRead(fobj, p, buffer_size, rl)
                 IN  IF ~r.ok
                     THEN [err |-> TRUE, buf |-> b2, start |-> 0, end |-> 0,
                           eof |-> e, pos |-> r.pos, rl |-> r.rl,
                           n |-> k + 1, zero |-> z]
                     ELSE NextLoop(b2 \o r.data, 0, si2,
                                   IF r.data = <<>> THEN TRUE ELSE e,
                                   r.pos, r.rl, k + 1,
                                   z \/ Len(r.data) = 0)

\* ReadLines._next
NextScan == NextLoop(buf, idx, idx, eof, pos, readsLeft, 0, FALSE)

\* lines 223-224, 216, 213: a call assigns the attributes only once its reads
\* are done; a read that raises leaves them as they were
ErrTakesLocal(old, local) == local

ErrKeep(old, local) == old

\* lines 186, 273: self._eof after the first read
EofOnShort(data, bs) == Len(data) < bs

EofAfter(data, bs) == data = <<>>

\* line 225: match_end == 0 raises StopIteration
StopOnStartZero(r) == r.start = 0

Stops(r) == r.end = 0

\* ----------------------------------------------------------------- actions
Init ==
  /\ content \in SeqsUpTo(MaxLen)
  /\ managed \in BOOLEAN
  /\ pos \in IF managed THEN {0} ELSE {0, Min2(MaxStart, Len(content))}
  /\ maxRead \in {1, MaxLen + 1}
  /\ tellOk = TRUE
  /\ seekable = TRUE
  /\ readsLeft = -1
  /\ closeCount = 0
  /\ life = "new"
  /\ fobj = FALSE
  /\ closed = TRUE
  /\ start = 0
  /\ buffer_size = 0
  /\ delimiter = NoDelim
  /\ buf = <<>>
  /\ idx = 0
  /\ eof = FALSE
  /\ result = Res("none", "none", <<>>)
  /\ records = <<>>
  /\ resetAfter = -1
  /\ zeroRead = FALSE

\* lines 275-277: __init__ failed after the source was acquired
FailLeak(c) == c

FailCleanup(c) == IF managed THEN c + 1 ELSE c

\* ReadLines.__init__(src, delimiter = d, buffer_size = bs)
Construct(d, bs) ==
  /\ life = "new"
  /\ LET r == FRead(TRUE, pos, bs, readsLeft)
     IN  IF ~tellOk
         THEN /\ life' = "failed"
              /\ fobj' = TRUE
              /\ closeCount' = FailCleanup(closeCount)
              /\ result' = Res("init", "error", <<>>)
              /\ UNCHANGED << pos, readsLeft, start, buffer_size, delimiter,
                              buf, idx, eof, closed, zeroRead >>
         ELSE IF ~r.ok
         THEN /\ life' = "failed"
              /\ fobj' = TRUE
              /\ start' = pos
              /\ buffer_size' = bs
              /\ readsLeft' = r.rl
              /\ closeCount' = FailCleanup(closeCount)
              /\ result' = Res("init", "error", <<>>)
              /\ UNCHANGED << pos, delimiter, buf, idx, eof, closed,
                              zeroRead >>
         ELSE /\ life' = "live"
              /\ fobj' = TRUE
              /\ start' = pos
              /\ buffer_size' = bs
              /\ buf' = r.data
              /\ pos' = r.pos
              /\ readsLeft' = r.rl
              /\ idx' = 0
              /\ eof' = EofAfter(r.data, bs)
              /\ delimiter' = d
              /\ closed' = FALSE
              /\ result' = Res("init", "ok", <<>>)
              /\ zeroRead' = (Len(r.data) = 0)
              /\ UNCHANGED closeCount
  /\ UNCHANGED << srcVars, managed, records, resetAfter >>

\* ReadLines.__next__
NextRecord ==
  /\ life = "live"
  /\ LET r == NextScan
     IN  IF r.err
         THEN /\ result' = Res("next", "error", <<>>)
              /\ pos' = r.pos
              /\ readsLeft' = r.rl
              /\ buf' = ErrKeep(buf, r.buf)
              /\ idx' = ErrKeep(idx, r.end)
              /\ UNCHANGED << eof, records >>
         ELSE /\ buf' = r.buf
              /\ idx' = r.end
              /\ eof' = r.eof
              /\ pos' = r.pos
              /\ readsLeft' = r.rl
              /\ IF Stops(r)
                 THEN /\ result' = Res("next", "eos", <<>>)
                      /\ UNCHANGED records
                 ELSE /\ result' = Res("next", "record",
                                       Slice(r.buf, r.start, r.end))
                      /\ records' = Append(records,
                                           Slice(r.buf, r.start, r.end))
  /\ zeroRead' = (zeroRead \/ NextScan.zero)
  /\ UNCHANGED << srcVars, closeCount, life, fobj, managed, closed, start,
                  buffer_size, delimiter, resetAfter >>

\* the read loop of peek(size): lines 201-212
RECURSIVE PeekLoop(_, _, _, _, _, _, _)
PeekLoop(b, e, p, rl, to_read, k, z) ==
  LET r == FRead(fobj, p, to_read, rl)
      n == Len(r.data)
      e2 == IF n = 0 THEN TRUE ELSE e
  IN  IF ~r.ok
      THEN [err |-> TRUE, buf |-> b, eof |-> e, pos |-> r.pos, rl |-> r.rl,
            n |-> k + 1, zero |-> z]
      ELSE IF 0 < n /\ n < to_read
      THEN PeekLoop(b \o r.data, e2, r.pos, r.rl, to_read - n, k + 1, z)
      ELSE [err |-> FALSE, buf |-> b \o r.data, eof |-> e2, pos |-> r.pos,
            rl |-> r.rl, n |-> k + 1, zero |-> z \/ n = 0]

\* math.ceil(x / y) * y for x > 0, y > 0
FloorMul(x, y) == (x \div y) * y

CeilMul(x, y) == ((x + y - 1) \div y) * y

\* ReadLines.peek(size) with size not None
PeekCount(size) ==
  /\ life = "live"
  /\ LET extra == size - (Len(buf) - idx)
     IN  IF size <= 0
         THEN /\ result' = Res("peekn", "value", <<>>)
              /\ UNCHANGED << buf, eof, pos, readsLeft, zeroRead >>
         ELSE IF extra > 0 /\ ~eof
         THEN LET r == PeekLoop(buf, eof, pos, readsLeft,
                                CeilMul(extra, buffer_size), 0, FALSE)
              IN  /\ pos' = r.pos
                  /\ readsLeft' = r.rl
                  /\ zeroRead' = (zeroRead \/ r.zero)
                  /\ IF r.err
                     THEN /\ result' = Res("peekn", "error", <<>>)
                          /\ buf' = ErrKeep(buf, r.buf)
                          /\ UNCHANGED eof
                     ELSE /\ buf' = r.buf
                          /\ eof' = r.eof
                          /\ result' = Res("peekn", "value",
                                           Slice(r.buf, idx, idx + size))
         ELSE /\ result' = Res("peekn", "value", Slice(buf, idx, idx + size))
              /\ UNCHANGED << buf, eof, pos, readsLeft, zeroRead >>
  /\ UNCHANGED << srcVars, closeCount, life, fobj, managed, closed, start,
                  buffer_size, delimiter, idx, records, resetAfter >>

\* ReadLines.peek() with size None
PeekRecord ==
  /\ life = "live"
  /\ LET r == NextScan
     IN  IF r.err
         THEN /\ result' = Res("peek", "error", <<>>)
              /\ pos' = r.pos
              /\ readsLeft' = r.rl
              /\ buf' = ErrKeep(buf, r.buf)
              /\ idx' = ErrKeep(idx, r.start)
              /\ UNCHANGED eof
         ELSE /\ buf' = r.buf
              /\ idx' = r.start
              /\ eof' = r.eof
              /\ pos' = r.pos
              /\ readsLeft' = r.rl
              /\ result' = Res("peek", "value", Slice(r.buf, r.start, r.end))
  /\ zeroRead' = (zeroRead \/ NextScan.zero)
  /\ UNCHANGED << srcVars, closeCount, life, fobj, managed, closed, start,
                  buffer_size, delimiter, records, resetAfter >>

\* line 184: self._fobj.seek(self._start)
SeekStays == pos

SeekTarget == start

\* line 184: seek() raises on a source that cannot seek
SeekNeverFails == TRUE

SeekOk == seekable

\* ReadLines.reset(delimiter = d); d = NoDelim stands for None
Reset(d) ==
  /\ life = "live"
  /\ IF ~fobj \/ ~SeekOk
     THEN /\ result' = Res("reset", "error", <<>>)
          /\ UNCHANGED << pos, readsLeft, buf, idx, eof, delimiter, records,
                          resetAfter, zeroRead >>
     ELSE LET r == FRead(fobj, SeekTarget, buffer_size, readsLeft)
          IN  /\ pos' = r.pos
              /\ readsLeft' = r.rl
              /\ IF ~r.ok
                 THEN /\ result' = Res("reset", "error", <<>>)
                      /\ UNCHANGED << buf, idx, eof, delimiter, records,
                                      resetAfter, zeroRead >>
                 ELSE /\ buf' = r.data
                      /\ idx' = 0
                      /\ eof' = EofAfter(r.data, buffer_size)
                      /\ delimiter' = IF d # NoDelim THEN d ELSE delimiter
                      /\ result' = Res("reset", "ok", <<>>)
                      /\ records' = <<>>
                      /\ resetAfter' = Len(records)
                      /\ zeroRead' = (Len(r.data) = 0)
  /\ UNCHANGED << srcVars, closeCount, life, fobj, managed, closed, start,
                  buffer_size >>

\* line 179: only a source the reader opened itself is closed
ClosesAlways == TRUE

ClosesSource == managed

CloseKeepsBuffer ==
  IF ~closed
  THEN /\ closed' = TRUE
       /\ fobj' = FALSE
       /\ closeCount' = IF managed THEN closeCount + 1 ELSE closeCount
       /\ UNCHANGED << buf, idx, eof >>
  ELSE UNCHANGED << closed, fobj, buf, idx, eof, closeCount >>

CloseKeepsIdx ==
  IF ~closed
  THEN /\ closed' = TRUE
       /\ fobj' = FALSE
       /\ buf' = <<>>
       /\ eof' = TRUE
       /\ closeCount' = IF managed THEN closeCount + 1 ELSE closeCount
       /\ UNCHANGED idx
  ELSE UNCHANGED << closed, fobj, buf, idx, eof, closeCount >>

\* the body of ReadLines.close
CloseBody ==
  IF ~closed
  THEN /\ closed' = TRUE
       /\ fobj' = FALSE
       /\ buf' = <<>>
       /\ idx' = 0
       /\ eof' = TRUE
       /\ closeCount' = IF ClosesSource THEN closeCount + 1 ELSE closeCount
  ELSE UNCHANGED << closed, fobj, buf, idx, eof, closeCount >>

\* ReadLines.close()
Close ==
  /\ life = "live"
  /\ CloseBody
  /\ result' = Res("close", IF closed THEN "noop" ELSE "ok", <<>>)
  /\ UNCHANGED << srcVars, pos, readsLeft, life, managed, start, buffer_size,
                  delimiter, records, resetAfter, zeroRead >>

\* ReadLines.__exit__ at the end of a with block; exc: left by an exception
Exit(exc) ==
  /\ life = "live"
  /\ CloseBody
  /\ result' = Res("exit", IF exc THEN "error" ELSE "ok", <<>>)
  /\ UNCHANGED << srcVars, pos, readsLeft, life, managed, start, buffer_size,
                  delimiter, records, resetAfter, zeroRead >>

\* ReadLines.__del__: the finalizer, also run on an object whose __init__ raised
Del ==
  /\ life \in {"live", "failed"}
  /\ CloseBody
  /\ life' = "dead"
  /\ result' = Res("del", "ok", <<>>)
  /\ UNCHANGED << srcVars, pos, readsLeft, managed, start, buffer_size,
                  delimiter, records, resetAfter, zeroRead >>

ResetDelims == {NoDelim, Lit(<<"b">>)}

Next ==
  \/ \E d \in Delims, bs \in 1..MaxChunk : Construct(d, bs)
  \/ NextRecord
  \/ PeekRecord
  \/ \E n \in 0..MaxPeek : PeekCount(n)
  \/ \E d \in ResetDelims : Reset(d)
  \/ Close
  \/ \E exc \in BOOLEAN : Exit(exc)
  \/ Del

Spec == Init /\ [][Next]_vars

\* iteration alone: no peek of either kind
NextIter ==
  \/ \E d \in Delims, bs \in 1..MaxChunk : Construct(d, bs)
  \/ NextRecord
  \/ \E d \in ResetDelims : Reset(d)
  \/ Close

SpecIter == Init /\ [][NextIter]_vars

\* iteration and peek(), peek(size) left out
NextNoCount ==
  \/ \E d \in Delims, bs \in 1..MaxChunk : Construct(d, bs)
  \/ NextRecord
  \/ PeekRecord
  \/ \E d \in ResetDelims : Reset(d)
  \/ Close

SpecNoCount == Init /\ [][NextNoCount]_vars

\* a source with one fault: tell() raises, seek() raises, or one read raises
Faults ==
  { [tell |-> FALSE, seek |-> TRUE, reads |-> -1],
    [tell |-> TRUE, seek |-> FALSE, reads |-> -1] }
  \cup { [tell |-> TRUE, seek |-> TRUE, reads |-> k] : k \in {0, MaxReads} }

\* Who owns the source matters to a fault only while __init__ runs, where
\* lines 275-278 close an owned one: the sources whose fault comes later (a
\* seek() or a later read) are streams of the caller's.
InitIO ==
  /\ content \in SeqsUpTo(MaxLen)
  /\ pos = 0
  /\ maxRead = MaxLen + 1
  /\ \E f \in Faults :
       /\ tellOk = f.tell
       /\ seekable = f.seek
       /\ readsLeft = f.reads
  /\ managed \in IF seekable /\ readsLeft <= 0 THEN BOOLEAN ELSE {FALSE}
  /\ closeCount = 0
  /\ life = "new"
  /\ fobj = FALSE
  /\ closed = TRUE
  /\ start = 0
  /\ buffer_size = 0
  /\ delimiter = NoDelim
  /\ buf = <<>>
  /\ idx = 0
  /\ eof = FALSE
  /\ result = Res("none", "none", <<>>)
  /\ records = <<>>
  /\ resetAfter = -1
  /\ zeroRead = FALSE

SpecIO == InitIO /\ [][Next]_vars

\* ------------------------------------------------------------- definitions
\* the units the reader was constructed over: the source from self._start on
Input == Tail0(content, start)

RECURSIVE Concat(_)
Concat(rs) == IF rs = <<>> THEN <<>> ELSE Head(rs) \o Concat(Tail(rs))

\* s cut right after each successive leftmost occurrence of the non-empty t
RECURSIVE RefCut(_, _)
RefCut(s, t) ==
  IF s = <<>> THEN <<>>
  ELSE LET h == Find(s, t, 0)
       IN  IF h = -1 THEN <<s>>
           ELSE <<Slice(s, 0, h + Len(t))>> \o RefCut(Tail0(s, h + Len(t)), t)

Open == life = "live" /\ ~closed

AtEos == Open /\ result.op = "next" /\ result.kind = "eos"

NonEmptyLit == IsLiteral(delimiter) /\ delimiter.alts[1] # <<>>

\* ------------------------------------------------------------------ claims
\* C1 as stated: for every literal delimiter, the records yielded by
\* __next__ up to end-of-stream concatenate to the input.
C1_RoundTripAnyLiteral ==
  (AtEos /\ IsLiteral(delimiter)) => Concat(records) = Input

\* C1 amended: for every non-empty literal delimiter, the records yielded by
\* __next__ up to end-of-stream concatenate to the input, and before that
\* they concatenate to the part of the input before the cursor.
C1_RoundTrip ==
  (Open /\ NonEmptyLit) =>
     /\ Concat(records) = Slice(Input, 0, Len(Concat(records)))
     /\ AtEos => Concat(records) = Input

C1_Witness ==
  /\ AtEos /\ NonEmptyLit
  /\ Len(records) >= 2
  /\ buffer_size < Len(Input)

\* C2: with a non-empty literal delimiter the records are the input cut after
\* each successive leftmost occurrence of the delimiter, whatever the chunk
\* size and however the reads fall.
C2_BoundarySplit ==
  (Open /\ NonEmptyLit) =>
     /\ Len(records) <= Len(RefCut(Input, delimiter.alts[1]))
     /\ records = SubSeq(RefCut(Input, delimiter.alts[1]), 1, Len(records))
     /\ AtEos => records = RefCut(Input, delimiter.alts[1])

\* a two-unit delimiter read one unit at a time ends a record
C2_Witness ==
  /\ Open /\ delimiter = Lit(<<"a", "b">>)
  /\ buffer_size = 1
  /\ Len(records) >= 1
  /\ records[1] = <<"b", "a", "b">>


\* the source position of the first unconsumed unit
Cursor == pos - (Len(buf) - idx)

\* C3: peek() does not move the logical cursor, a second peek() returns the
\* record of the first, and __next__ after peek() returns the peeked record.
C3_IdempotentPeek ==
  [][ Open =>
        /\ (result'.op = "peek" /\ result'.kind = "value") => Cursor' = Cursor
        /\ (result.op = "peek" /\ result.kind = "value"
               /\ result'.op \in {"peek", "next"}
               /\ result'.kind \in {"value", "record", "eos"})
             => result'.val = result.val ]_vars

\* C4: with a pattern delimiter, a record that ends where the buffer ends is
\* handed out only once a read has returned nothing (the source is drained),
\* and with u+ a returned record ends with a whole run of u: the unit after
\* it in the source is not u.
C4_DeferredMatch ==
  (Open /\ ~IsLiteral(delimiter)) =>
     /\ (result.op = "next" /\ result.kind = "record" /\ idx = Len(buf))
          => (eof /\ pos = Len(content))
     /\ (result.op = "peek" /\ result.kind = "value" /\ result.val # <<>>
            /\ idx + Len(result.val) = Len(buf))
          => (eof /\ pos = Len(content))
     /\ (delimiter.kind = "plus" /\ result.op = "next"
            /\ result.kind = "record" /\ Cursor < Len(content))
          => /\ result.val[Len(result.val)] = delimiter.alts[1][1]
             /\ content[Cursor + 1] # delimiter.alts[1][1]

\* a run of two read one unit at a time comes back whole
C4_Witness ==
  /\ Open /\ delimiter = Plus("a") /\ buffer_size = 1
  /\ content = <<"a", "a", "b">>
  /\ result = Res("next", "record", <<"a", "a">>)

\* the records of one pass with __next__ alone from (b, i, e, p)
RECURSIVE PassFrom(_, _, _, _)
PassFrom(b, i, e, p) ==
  LET r == NextLoop(b, i, i, e, p, -1, 0, FALSE)
  IN  IF r.end = 0 THEN <<>>
      ELSE <<Slice(r.buf, r.start, r.end)>> \o PassFrom(r.buf, r.end, r.eof, r.pos)

\* the records of a first pass of a reader constructed at self._start
FirstPass ==
  LET r == FRead(TRUE, start, buffer_size, -1)
  IN  PassFrom(r.data, 0, r.data = <<>>, r.pos)

\* C5: after reset() the records read with __next__ are again those of a
\* first pass from the construction-time position, up to end-of-stream.
C5_Reset ==
  (Open /\ resetAfter >= 0) =>
     /\ Len(records) <= Len(FirstPass)
     /\ records = SubSeq(FirstPass, 1, Len(records))
     /\ AtEos => records = FirstPass

C5_Witness ==
  /\ AtEos /\ resetAfter >= 1
  /\ delimiter = Lit(<<"a">>)
  /\ start = 1
  /\ Len(records) >= 2

progVars == << pos, closeCount, fobj, managed, closed, start, buffer_size,
               delimiter, buf, idx, eof >>

\* C7: the source is closed once if the reader opened it and closed it or
\* left its with block, never if it was handed in open, and close() on a
\* closed reader changes nothing.
C7_Ownership ==
  /\ [](closeCount = IF managed /\ life \in {"live", "dead"} /\ closed
                     THEN 1 ELSE 0)
  /\ [][ (life = "live" /\ closed /\ result'.op \in {"close", "exit", "del"})
           => UNCHANGED progVars ]_vars

C7_Witness ==
  /\ life = "live" /\ closed /\ managed
  /\ closeCount = 1
  /\ result = Res("close", "noop", <<>>)

\* C8: when __init__ fails at tell() or at the first read, a source the
\* reader opened is closed once, the reader stays closed, and the finalizer
\* does not close the source again.
C8_NoLeak ==
  (life = "failed" \/ (life = "dead" /\ delimiter = NoDelim)) =>
     /\ closed
     /\ result.kind = "error" \/ result.op = "del"
     /\ closeCount = IF managed THEN 1 ELSE 0

\* the finalizer has run after a failed first read
C8_Witness ==
  /\ life = "dead" /\ delimiter = NoDelim
  /\ managed /\ closeCount = 1
  /\ buffer_size > 0
  /\ result.op = "del"

\* the delimiter d matches a text that ends where s ends
EndsWithDelim(d, s) == \E p \in 0..Len(s) : MatchLenAt(d, s, p) = Len(s) - p

\* where the k-th record handed out ends in the input
RecEnd(k) == Len(Concat(SubSeq(records, 1, k)))

\* the k-th record handed out ends with a match of the delimiter, the match
\* taken in the input, where a pattern sees the text that follows it
RecordEndsWithDelim(k) ==
  \E p \in RecEnd(k - 1)..RecEnd(k) :
     MatchLenAt(delimiter, Input, p) = RecEnd(k) - p

\* the delimiter d matches somewhere in s
DelimIn(d, s) == \E p \in 0..Len(s) : MatchLenAt(d, s, p) # -1

\* a delimiter that matches the empty text
MatchesEmpty(d) == MatchLenAt(d, <<>>, 0) = 0

\* the unconsumed part of the buffer is the source from the cursor on, and
\* the records handed out are the source before the cursor
Coherent ==
  /\ Tail0(buf, idx) = Slice(content, Cursor, pos)
  /\ Concat(records) = Slice(content, start, Cursor)

\* C9 as stated: with any pattern delimiter the records concatenate to the
\* input, and every record but the last ends with a match of the pattern.
C9_PatternLosslessAny ==
  (AtEos /\ ~IsLiteral(delimiter)) =>
     /\ Concat(records) = Input
     /\ \A k \in 1..(Len(records) - 1) : RecordEndsWithDelim(k)

\* C9 amended: with a pattern delimiter that does not match the empty text,
\* the records concatenate to the input, every record but the last ends with
\* a match of the pattern, and the buffer never loses a unit at or after the
\* cursor.
C9_PatternLossless ==
  (Open /\ ~IsLiteral(delimiter) /\ ~MatchesEmpty(delimiter)) =>
     /\ Coherent
     /\ AtEos => Concat(records) = Input
     /\ \A k \in 1..(Len(records) - 1) : RecordEndsWithDelim(k)

\* three records, the pattern's run split over the reads
C9_Witness ==
  /\ AtEos /\ delimiter = Plus("a") /\ buffer_size = 1
  /\ records = << <<"a", "a">>, <<"b">> >>

\* C10: when the input is not empty and does not end with the delimiter,
\* the pass ends with one non-empty record that holds no delimiter and
\* follows a record ending with it, the records concatenate to the input,
\* and the call after the final record signals end-of-stream.
C10_FinalPartial ==
  /\ [](( AtEos /\ Input # <<>> /\ ~EndsWithDelim(delimiter, Input)) =>
          /\ records # <<>>
          /\ records[Len(records)] # <<>>
          /\ ~DelimIn(delimiter, records[Len(records)])
          /\ Len(records) >= 2 => RecordEndsWithDelim(Len(records) - 1)
          /\ Concat(records) = Input)
  /\ [][ ( Open /\ Input # <<>> /\ ~EndsWithDelim(delimiter, Input)
             /\ result.op = "next" /\ result.kind = "record"
             /\ Cursor = Len(content)
             /\ result'.op = "next" )
          => (result'.kind = "eos" /\ records' = records) ]_vars

C10_Witness ==
  /\ AtEos /\ delimiter = Lit(<<"a", "b">>)
  /\ records = << <<"a", "b">>, <<"a">> >>

\* the source is drained and no unit of the buffer is unconsumed
Drained == Open /\ eof /\ idx = Len(buf)

PeekCountDone(n) ==
  /\ result' = Res("peekn", "value", Slice(content, Cursor, Cursor + n))
  /\ Cursor' = Cursor
  /\ idx' = idx
  /\ (pos' - pos) % buffer_size = 0 \/ pos' = Len(content)

\* C12: on an open reader peek(n) with n > 0 returns the next n units of the
\* source from the cursor on, or all the remaining ones when they are fewer,
\* leaves the cursor in place and reads a multiple of buffer_size units
\* unless the source ends first, also when reads come back short.
C12_PeekCount ==
  [][ (Open /\ result'.op = "peekn") =>
         \A n \in 1..MaxPeek : PeekCount(n) => PeekCountDone(n) ]_vars

\* two units peeked over reads of one unit each, a whole chunk read for them
C12_Witness ==
  /\ Open /\ maxRead = 1 /\ buffer_size = 2
  /\ content = <<"a", "b", "a">>
  /\ result = Res("peekn", "value", <<"a", "b">>)
  /\ records = <<>> /\ idx = 0 /\ pos = 3

\* C13: when a read raises inside __next__, peek() or peek(n) of an open
\* reader, the call raises and _buf, _idx and _eof are what they were before
\* the call; the reader stays open and no record is handed out.
C13_ReadFailure ==
  [][ (Open /\ result'.op \in {"next", "peek", "peekn"}
            /\ result'.kind = "error") =>
        UNCHANGED << buf, idx, eof, records, closed, life, delimiter >> ]_vars

\* the second read of one __next__ call raised after the first had returned
\* a unit: the attributes are those from before the call
C13_Witness ==
  /\ Open /\ result = Res("next", "error", <<>>)
  /\ content = <<"b", "b", "b">> /\ buffer_size = 1
  /\ delimiter = Lit(<<"a">>)
  /\ buf = <<"b">> /\ idx = 0 /\ ~eof /\ pos = 2

\* C14: reset() on an open reader whose source cannot seek raises, with or
\* without a new delimiter, and leaves _buf, _idx, _eof, the delimiter and
\* the file position as they were, so that the iteration goes on from the
\* same record.
C14_ResetUnseekable ==
  /\ [][ (Open /\ ~seekable /\ result'.op = "reset") =>
           /\ result'.kind = "error"
           /\ UNCHANGED << buf, idx, eof, delimiter, pos, records, closed,
                           life >> ]_vars
  /\ [][ (Open /\ ~seekable /\ result.op = "reset" /\ result'.op = "next"
               /\ result'.kind = "record") =>
           Concat(records') = Slice(content, start, Cursor') ]_vars

\* a record was read, reset() raised, and the next record followed it
C14_Witness ==
  /\ Open /\ ~seekable
  /\ content = <<"b", "a", "b">> /\ delimiter = Lit(<<"a">>)
  /\ resetAfter = -1
  /\ result = Res("reset", "error", <<>>)
  /\ records = << <<"b", "a">> >>
  /\ idx = 2

\* the reads peek(n) makes from the current state
PeekCountReads(n) ==
  LET extra == n - (Len(buf) - idx)
  IN  IF extra > 0 /\ ~eof
      THEN PeekLoop(buf, eof, pos, readsLeft, CeilMul(extra, buffer_size),
                    0, FALSE).n
      ELSE 0

\* C15: over a finite source and with a non-empty literal delimiter a call
\* of __next__, peek() or peek(n) makes at most one read per unit left in the
\* source and one more, the records handed out are non-empty and no longer
\* together than the input, and each __next__ either moves the cursor
\* forward by a record or, with no unit left, raises StopIteration.
C15_Termination ==
  /\ []((Open /\ NonEmptyLit) =>
          /\ NextScan.n <= (Len(content) - pos) + 1
          /\ \A n \in 1..MaxPeek :
                PeekCountReads(n) <= (Len(content) - pos) + 1
          /\ \A k \in 1..Len(records) : records[k] # <<>>
          /\ Len(Concat(records)) <= Len(Input))
  /\ [][ (Open /\ NonEmptyLit /\ result'.op = "next") =>
           IF Cursor < Len(content)
           THEN /\ result'.kind = "record"
                /\ Cursor' = Cursor + Len(result'.val)
                /\ Cursor' > Cursor
                /\ Cursor' <= Len(content)
           ELSE result'.kind = "eos" /\ Cursor' = Cursor ]_vars

\* three records over reads of one unit, then StopIteration
C15_Witness ==
  /\ AtEos /\ NonEmptyLit /\ maxRead = 1 /\ buffer_size = 2
  /\ content = <<"a", "a", "b">> /\ delimiter = Lit(<<"a">>)
  /\ Len(records) = 3

\* what C16 asks of a __next__ step: StopIteration exactly when the source
\* is read to its end and the buffer holds no unconsumed unit, and a match
\* end other than 0 with every record
EosWhenExhausted ==
  /\ (result'.kind = "eos") <=> (pos = Len(content) /\ idx = Len(buf))
  /\ result'.kind = "eos" => (buf' = <<>> /\ idx' = 0)
  /\ result'.kind = "record" => idx' > 0

\* C16 as stated: whatever the delimiter, __next__ raises StopIteration if
\* and only if nothing is left in the source and in the buffer, and the match
\* end of a record it returns is not 0.
C16_EosDistinctAny ==
  [][ (Open /\ result'.op = "next" /\ result'.kind # "error") =>
         EosWhenExhausted ]_vars

\* C16 amended: with a delimiter that does not match the empty text,
\* __next__ raises StopIteration if and only if nothing is left in the source
\* and in the buffer, and the match end of a record it returns is not 0.
C16_EosDistinct ==
  [][ (Open /\ ~MatchesEmpty(delimiter) /\ result'.op = "next"
            /\ result'.kind # "error") =>
         EosWhenExhausted ]_vars

\* StopIteration after the two records of an input cut by a pattern
C16_Witness ==
  /\ AtEos /\ delimiter = Alt(<< <<"b">>, <<"a", "b", "a">> >>)
  /\ content = <<"b", "a">> /\ start = 0
  /\ records = << <<"b">>, <<"a">> >>
  /\ buf = <<>> /\ idx = 0 /\ eof

\* C17: in every state, before and after construction, after any sequence
\* of __next__, peek(), peek(n), reset and close calls, _idx is an offset
\* into _buf: 0 <= _idx <= len(_buf).
C17_CursorInBuffer == 0 <= idx /\ idx <= Len(buf)

\* the cursor strictly inside a buffer that a refill has compacted
C17_Witness ==
  /\ Open /\ result.op = "next" /\ result.kind = "record"
  /\ Len(records) = 2 /\ buffer_size = 1
  /\ 0 < idx /\ idx < Len(buf)

\* C18 as stated: in every state _eof is set only if a read has returned no
\* unit since construction or the last reset.
C18_EofAfterEmptyReadAny == eof => zeroRead

\* C18 amended: in every state of an open reader _eof is set only if a read
\* has returned no unit since construction or the last reset.
C18_EofAfterEmptyRead == (Open /\ eof) => zeroRead

\* the end of the source found by peek(n) after a short first read
C18_Witness ==
  /\ Open /\ eof /\ zeroRead
  /\ content = <<"a">> /\ buffer_size = 2 /\ maxRead = 1
  /\ result = Res("peekn", "value", <<"a">>)

\* C19: with peek() and peek(n) calls between the __next__ calls, the
\* records __next__ has returned are the first records of the pass that no
\* peek interrupts, over the same input, delimiter and buffer_size, and all of
\* them once StopIteration is raised.
C19_PeekTransparent ==
  Open =>
     /\ Len(records) <= Len(FirstPass)
     /\ records = SubSeq(FirstPass, 1, Len(records))
     /\ AtEos => records = FirstPass

\* the units of the buffer at and after the cursor
Unconsumed == Len(buf) - idx

\* what C20 asks of a state: after construction, reset() and __next__ at
\* most buffer_size unconsumed units, after peek() at most buffer_size more
\* than the record peeked
LookaheadBounded ==
  /\ (result.op \in {"init", "reset", "next"}) => Unconsumed <= buffer_size
  /\ (result.op = "peek") => Unconsumed <= buffer_size + Len(result.val)

\* what C20 asks of a step: a call of __next__ or peek() that reads from
\* the source leaves the record it found at the start of the buffer
RefillDropsPrefix ==
  (result'.op \in {"next", "peek"} /\ (pos' # pos \/ eof' # eof)) =>
     idx' = IF result'.op = "next" THEN Len(result'.val) ELSE 0

\* C20 as stated: without peek(size), whatever the delimiter, the buffer of
\* an open reader holds at most buffer_size unconsumed units after
\* construction, reset() and __next__ and at most buffer_size more than the
\* peeked record after peek(), and a refill drops the consumed prefix.
C20_BoundedLookaheadAny ==
  /\ [](Open => LookaheadBounded)
  /\ [][Open => RefillDropsPrefix]_vars

\* a pattern whose match depends on the text that follows it
LooksAhead(d) == d.kind = "ahead"

\* C20 amended: without peek(size), with a literal delimiter or a pattern
\* that does not look past its match, the buffer of an open reader holds at
\* most buffer_size unconsumed units after construction, reset() and __next__
\* and at most buffer_size more than the peeked record after peek(), and a
\* refill drops the consumed prefix.
C20_BoundedLookahead ==
  /\ []((Open /\ ~LooksAhead(delimiter)) => LookaheadBounded)
  /\ [][(Open /\ ~LooksAhead(delimiter)) => RefillDropsPrefix]_vars

\* a record of three units peeked over chunks of one unit
C20_Witness ==
  /\ Open /\ buffer_size = 1 /\ delimiter = Lit(<<"a">>)
  /\ result = Res("peek", "value", <<"b", "b", "a">>)
  /\ idx = 0 /\ Unconsumed = 3

====
